---- MODULE Spec2Model ----
(***************************************************************************)
(* The three steganographic codecs of the repository (LSB Replacement,     *)
(* LSB Matching, Hamming(15,11) syndrome coding) over a flat buffer of     *)
(* pixel-channel bytes.  The BMP reader/writer is an I/O adapter: a file   *)
(* is modelled by the flat byte sequence it decodes to.                    *)
(*                                                                         *)
(* Python sequences are 0-indexed and TLA+ sequences 1-indexed: the byte   *)
(* the source calls flat[i] is flat[i + 1] here.  A rate is the pair       *)
(* <<num, den>> standing for num / den; the rates of the model have a      *)
(* power-of-two denominator, so the source's floating-point product        *)
(* len * rate is exact and int(len * rate) is the floor of the quotient.   *)
(***************************************************************************)
EXTENDS Integers, Sequences, FiniteSets, TLC

VARIABLES
    flat,       \* the cover image's bytes (the array embed reads and never writes)
    stego,      \* the bytes of the file embed saved; <<>> while none was saved
    method,     \* the backend embed was called on
    payload,    \* embed's payload argument
    rate,       \* embed's rate argument
    plus,       \* the random polarity draw of LSB Matching's embed
    promo,      \* the integer promotion rules of the installed NumPy
    embedRes,   \* how embed ended
    exArgs,     \* extract's arguments: backend, rate, and which file it read
    exRes,      \* how extract ended: a payload or a failure
    pc,         \* position of the caller: "idle", "embedded", "extracted"
    args,       \* inputs of a single step checked on its own
    ret         \* result of a single step checked on its own

vars == <<flat, stego, method, payload, rate, plus, promo, embedRes,
          exArgs, exRes, pc, args, ret>>

mainVars == <<flat, stego, method, payload, rate, plus, promo, embedRes,
              exArgs, exRes>>

(***************************************************************************)
(* Bounds of the model.                                                    *)
(***************************************************************************)
MaxPayloadLen == 2

MaxCapLen == 150

(***************************************************************************)
(* Program constants.                                                      *)
(***************************************************************************)
HEADER_BITS == 32

MAGIC_BITS_LEN == 32

BlockSize == 15

NibbleBits == 4

MagicOf(m) ==
    CASE m = "HAMM" -> <<72, 65, 77, 77>>
      [] m = "LSBR" -> <<76, 83, 66, 82>>
      [] m = "LSBM" -> <<76, 83, 66, 77>>

Methods == {"LSBR", "LSBM", "HAMM"}

\* NumPy before 2.0 promotes a Python int with a uint8 scalar to int64;
\* NumPy 2.0 and later (NEP 50) keep uint8.
Promotions == {"legacy", "nep50"}

(***************************************************************************)
(* Bit/byte conversion.                                                    *)
(***************************************************************************)
\* The sequence a function over 1..n stands for, as a tuple.
Tup(f) == SubSeq(f, 1, Len(f))

\* np.unpackbits: each byte gives 8 bits, most significant first.
bits_from_bytes(data) ==
    Tup([i \in 1..(8 * Len(data)) |->
            (data[((i - 1) \div 8) + 1] \div (2 ^ (7 - ((i - 1) % 8)))) % 2])

PackByte(bits, j) ==
    LET b(k) == bits[8 * (j - 1) + k]
    IN  128 * b(1) + 64 * b(2) + 32 * b(3) + 16 * b(4)
        + 8 * b(5) + 4 * b(6) + 2 * b(7) + b(8)

\* np.packbits behind the length check; ok = FALSE is the ValueError
\* "Bit array length must be multiple of 8".
bytes_from_bits(bits) ==
    IF Len(bits) % 8 # 0
    THEN [ok |-> FALSE, bytes |-> <<>>]
    ELSE [ok |-> TRUE, bytes |-> Tup([j \in 1..(Len(bits) \div 8) |-> PackByte(bits, j)])]

\* len(payload).to_bytes(4, "little")
LengthHeader(n) ==
    <<n % 256, (n \div 256) % 256, (n \div 65536) % 256, (n \div 16777216) % 256>>

\* int.from_bytes(b, "little") of 4 bytes.  Python integers are unbounded and
\* the value can reach 2^32 - 1; it is kept as lo + 65536 * hi.
FromBytesLittle(b) == [lo |-> b[1] + 256 * b[2], hi |-> b[3] + 256 * b[4]]

\* Faulty variant of TotalBitsExceed: the comparison is >= instead of >.
TotalBitsReach(plen, avail) ==
    plen.hi > (avail - 1 - (MAGIC_BITS_LEN + HEADER_BITS) - 8 * plen.lo) \div 524288

\* magic_len + header + payload_len * 8 > avail, for payload_len = lo + 65536*hi:
\* 524288 * hi > avail - 64 - 8 * lo.
TotalBitsExceed(plen, avail) ==
    plen.hi > (avail - (MAGIC_BITS_LEN + HEADER_BITS) - 8 * plen.lo) \div 524288

\* _MAGIC + len(payload).to_bytes(4, "little") + payload, bit-expanded
FrameBits(m, p) == bits_from_bytes(MagicOf(m) \o LengthHeader(Len(p)) \o p)

\* int(n * rate)
IntMul(n, r) == (n * r[1]) \div r[2]

\* 0.0 <= rate <= 1.0 and 0.0 < rate <= 1.0
RateInClosed(r) == 0 <= r[1] /\ r[1] <= r[2]

RateInHalfOpen(r) == 0 < r[1] /\ r[1] <= r[2]

Failure(kind) == [kind |-> kind, data |-> <<>>]

Returned(bytes) == [kind |-> "Payload", data |-> bytes]

\* Python's buf[a:b] for 0 <= a: the end is clipped to the buffer.
PySlice(buf, a, b) == SubSeq(buf, a + 1, IF b > Len(buf) THEN Len(buf) ELSE b)

\* buf & 1
AndOne(buf) == Tup([i \in 1..Len(buf) |-> buf[i] % 2])

(***************************************************************************)
(* Parsing of the frame, as each extract does it after it has the bits.    *)
(* lsb_replacement.extract and lsb_matching.extract read the bits straight *)
(* from flat and compare against max_bits; hamming_code.extract first      *)
(* collects the syndromes in bits and compares against len(bits).          *)
(***************************************************************************)
LsbExtract(m, buf, r) ==
    IF ~RateInHalfOpen(r) THEN Failure("RateOutOfRange")
    ELSE
    LET max_bits == IntMul(Len(buf), r)
        needed_magic_bits == MAGIC_BITS_LEN
    IN
    IF max_bits < needed_magic_bits + HEADER_BITS THEN Failure("TruncatedHeader")
    ELSE
    LET magic_bits == AndOne(PySlice(buf, 0, needed_magic_bits)) IN
    IF magic_bits # bits_from_bytes(MagicOf(m)) THEN Failure("MagicMismatch")
    ELSE
    LET header_start == needed_magic_bits
        header_bits == AndOne(PySlice(buf, header_start, header_start + HEADER_BITS))
        hb == bytes_from_bits(header_bits)
    IN
    IF ~hb.ok THEN Failure("MisalignedBits")
    ELSE
    LET payload_len == FromBytesLittle(hb.bytes) IN
    IF TotalBitsExceed(payload_len, max_bits) THEN Failure("TruncatedPayload")
    ELSE
    LET total_bits_needed ==
            needed_magic_bits + HEADER_BITS + (payload_len.lo + 65536 * payload_len.hi) * 8
        payload_bits ==
            AndOne(PySlice(buf, header_start + HEADER_BITS, total_bits_needed))
        pb == bytes_from_bits(payload_bits)
    IN
    IF ~pb.ok THEN Failure("MisalignedBits") ELSE Returned(pb.bytes)

LsbrExtract(buf, r) == LsbExtract("LSBR", buf, r)

LsbmExtract(buf, r) == LsbExtract("LSBM", buf, r)

(***************************************************************************)
(* LSB Replacement: embed.                                                 *)
(***************************************************************************)
\* Faulty variant of ReplaceLsb: the frame bits are assigned to the bytes instead of
\* being merged into their bit 0.
ReplaceLsbAssign(buf, bits) ==
    Tup([i \in 1..Len(buf) |-> IF i <= Len(bits) THEN bits[i] ELSE buf[i]])

\* stego_flat[:n] &= 0xFE ; stego_flat[:n] |= full_bits
ReplaceLsb(buf, bits) ==
    Tup([i \in 1..Len(buf) |->
            IF i <= Len(bits) THEN (buf[i] - (buf[i] % 2)) + bits[i] ELSE buf[i]])

LsbCapacity(n, r) == IntMul(n, r)

LsbrEmbed(buf, p, r) ==
    IF ~RateInClosed(r) THEN [res |-> "RateOutOfRange", copied |-> FALSE, stego_flat |-> <<>>]
    ELSE
    LET max_payload_bits == LsbCapacity(Len(buf), r)
        full_bits == FrameBits("LSBR", p)
    IN
    IF Len(full_bits) > max_payload_bits
    THEN [res |-> "CapacityExceeded", copied |-> FALSE, stego_flat |-> <<>>]
    ELSE [res |-> "ok", copied |-> TRUE, stego_flat |-> ReplaceLsb(buf, full_bits)]

(***************************************************************************)
(* LSB Matching: embed.                                                    *)
(***************************************************************************)
PlusFamilies == {"plus", "minus", "alt"}

\* plus_mask = _rng.integers(0, 2, ...): one bit per mismatching byte.  The
\* model draws the whole mask from three families, given by the byte's index.
PlusMask(fam, i) ==
    CASE fam = "plus" -> 1
      [] fam = "minus" -> 0
      [] fam = "alt" -> i % 2

\* Faulty variant of MatchByte: the two boundary overrides are missing.
MatchByteNoOverride(v, bit, plusbit) ==
    IF v % 2 = bit THEN v
    ELSE (v + (IF plusbit = 1 THEN 1 ELSE -1)) % 256

\* One byte of embed_zone: unchanged when its bit 0 is the target bit, else
\* moved by the drawn delta after the two boundary overrides, & 0xFF.
MatchByte(v, bit, plusbit) ==
    IF v % 2 = bit THEN v
    ELSE
    LET d0 == IF plusbit = 1 THEN 1 ELSE -1
        d1 == IF v = 0 /\ d0 = -1 THEN 1 ELSE d0
        d2 == IF v = 255 /\ d1 = 1 THEN -1 ELSE d1
    IN  (v + d2) % 256

LsbmEmbed(buf, p, r, fam) ==
    IF ~RateInClosed(r) THEN [res |-> "RateOutOfRange", copied |-> FALSE, stego_flat |-> <<>>]
    ELSE
    LET capacity_bits == LsbCapacity(Len(buf), r)
        bits == FrameBits("LSBM", p)
    IN
    IF Len(bits) > capacity_bits
    THEN [res |-> "CapacityExceeded", copied |-> FALSE, stego_flat |-> <<>>]
    ELSE [res |-> "ok", copied |-> TRUE,
          stego_flat |->
            Tup([i \in 1..Len(buf) |->
                    IF i <= Len(bits)
                    THEN MatchByte(buf[i], bits[i], PlusMask(fam, i - 1))
                    ELSE buf[i]])]

(***************************************************************************)
(* Hamming(15,11) syndrome coding.                                         *)
(***************************************************************************)
\* H = [[((j + 1) >> r) & 1 for j in range(15)] for r in range(4)]
H == Tup([r \in 1..NibbleBits |-> Tup([j \in 1..BlockSize |-> (j \div (2 ^ (r - 1))) % 2])])

\* One row of H @ cover_bits
RowDot(row, c) ==
    row[1] * c[1] + row[2] * c[2] + row[3] * c[3] + row[4] * c[4] + row[5] * c[5]
    + row[6] * c[6] + row[7] * c[7] + row[8] * c[8] + row[9] * c[9] + row[10] * c[10]
    + row[11] * c[11] + row[12] * c[12] + row[13] * c[13] + row[14] * c[14] + row[15] * c[15]

\* (H @ cover_bits) & 1
Syndrome(cover_bits) ==
    <<RowDot(H[1], cover_bits) % 2, RowDot(H[2], cover_bits) % 2,
      RowDot(H[3], cover_bits) % 2, RowDot(H[4], cover_bits) % 2>>

XorOne(v) == IF v % 2 = 0 THEN v + 1 ELSE v - 1

\* start + pos, where start is a Python int and pos a uint8 scalar.  Legacy
\* promotion gives an int64.  Under NEP 50 the result is uint8: a start above
\* 255 cannot be converted (OverflowError) and a sum above 255 wraps around
\* (with a RuntimeWarning only).
FlipIndex(start, pos, pr) ==
    IF pr = "legacy" THEN [ok |-> TRUE, idx |-> start + pos]
    ELSE IF start > 255 THEN [ok |-> FALSE, idx |-> 0]
    ELSE [ok |-> TRUE, idx |-> (start + pos) % 256]

\* diff = syndrome ^ m; diff_val = diff[0] | diff[1] << 1 | diff[2] << 2 | diff[3] << 3
DiffVal(syndrome, m) ==
    LET diff(r) == (syndrome[r] + m[r]) % 2
    IN  diff(1) + 2 * diff(2) + 4 * diff(3) + 8 * diff(4)

\* stego_flat[start + pos] ^= 1, t being what start + pos evaluated to
FlipAt(stego_flat, t) ==
    IF ~t.ok THEN [ok |-> FALSE, buf |-> stego_flat]
    ELSE [ok |-> TRUE, buf |-> [stego_flat EXCEPT ![t.idx + 1] = XorOne(@)]]

\* if diff_val != 0: pos = diff_val - 1; stego_flat[start + pos] ^= 1
ApplyDiff(stego_flat, diff_val, start, pr) ==
    IF diff_val = 0 THEN [ok |-> TRUE, buf |-> stego_flat]
    ELSE FlipAt(stego_flat, FlipIndex(start, diff_val - 1, pr))

\* The body of embed's loop for the block at start and the nibble m.
HammingStep(stego_flat, m, start, pr) ==
    ApplyDiff(stego_flat,
              DiffVal(Syndrome(AndOne(PySlice(stego_flat, start, start + BlockSize))), m),
              start, pr)

\* bits padded with zeros to a multiple of 4 and reshaped to rows of 4
Nibbles(bits) ==
    LET n == (Len(bits) + NibbleBits - 1) \div NibbleBits IN
    Tup([k \in 1..n |->
            Tup([r \in 1..NibbleBits |->
                    LET i == NibbleBits * (k - 1) + r IN
                    IF i <= Len(bits) THEN bits[i] ELSE 0])])

\* for block_idx, m in enumerate(nibbles): ...; an error ends the loop
RECURSIVE EmbedBlocks(_, _, _, _, _)
RestOfBlocks(s, nibbles, block_idx, usable_blocks, pr) ==
    IF ~s.ok THEN s
    ELSE EmbedBlocks(s.buf, nibbles, block_idx, usable_blocks, pr)

EmbedBlocks(stego_flat, nibbles, block_idx, usable_blocks, pr) ==
    IF block_idx >= Len(nibbles) \/ block_idx >= usable_blocks
    THEN [ok |-> TRUE, buf |-> stego_flat]
    ELSE RestOfBlocks(HammingStep(stego_flat, nibbles[block_idx + 1], block_idx * BlockSize, pr),
                      nibbles, block_idx + 1, usable_blocks, pr)

\* Faulty variant of UsableBlocks: the rate scales the bytes before they are cut
\* into blocks.
UsableBlocksOfBytes(n, r) == IntMul(n, r) \div BlockSize

UsableBlocks(n, r) == IntMul(n \div BlockSize, r)

\* Faulty variant of HammCapacity: one bit per carrier byte, as in the LSB engines.
HammCapacityOfBytes(n, r) == IntMul(n, r)

HammCapacity(n, r) == UsableBlocks(n, r) * NibbleBits

HammEmbed(buf, p, r, pr) ==
    IF ~RateInClosed(r) THEN [res |-> "RateOutOfRange", copied |-> FALSE, stego_flat |-> <<>>]
    ELSE
    LET usable_blocks == UsableBlocks(Len(buf), r)
        capacity_bits == HammCapacity(Len(buf), r)
        bits == FrameBits("HAMM", p)
        needed_bits == Len(bits)
    IN
    IF needed_bits > capacity_bits
    THEN [res |-> "CapacityExceeded", copied |-> FALSE, stego_flat |-> <<>>]
    ELSE
    LET e == EmbedBlocks(buf, Nibbles(bits), 0, usable_blocks, pr) IN
    [res |-> IF e.ok THEN "ok" ELSE "OverflowError", copied |-> TRUE, stego_flat |-> e.buf]

\* bits_out: the syndromes of the usable blocks, in order
RECURSIVE SyndromeBits(_, _, _)
SyndromeBits(buf, block_idx, usable_blocks) ==
    IF block_idx >= usable_blocks THEN <<>>
    ELSE Syndrome(AndOne(PySlice(buf, block_idx * BlockSize, block_idx * BlockSize + BlockSize)))
         \o SyndromeBits(buf, block_idx + 1, usable_blocks)

\* Faulty variant of HammExtract: the comparison with the magic is missing.
HammExtractNoMagic(buf, r) ==
    IF ~RateInHalfOpen(r) THEN Failure("RateOutOfRange")
    ELSE
    LET usable_blocks == UsableBlocks(Len(buf), r)
        bits == SyndromeBits(buf, 0, usable_blocks)
        magic_len == MAGIC_BITS_LEN
    IN
    IF Len(bits) < magic_len + HEADER_BITS THEN Failure("TruncatedHeader")
    ELSE
    LET hb == bytes_from_bits(PySlice(bits, magic_len, magic_len + HEADER_BITS)) IN
    IF ~hb.ok THEN Failure("MisalignedBits")
    ELSE
    LET payload_len == FromBytesLittle(hb.bytes) IN
    IF TotalBitsExceed(payload_len, Len(bits)) THEN Failure("TruncatedPayload")
    ELSE
    LET total_bits_needed ==
            magic_len + HEADER_BITS + (payload_len.lo + 65536 * payload_len.hi) * 8
        pb == bytes_from_bits(PySlice(bits, magic_len + HEADER_BITS, total_bits_needed))
    IN
    IF ~pb.ok THEN Failure("MisalignedBits") ELSE Returned(pb.bytes)

HammExtract(buf, r) ==
    IF ~RateInHalfOpen(r) THEN Failure("RateOutOfRange")
    ELSE
    LET usable_blocks == UsableBlocks(Len(buf), r)
        bits == SyndromeBits(buf, 0, usable_blocks)
        magic_len == MAGIC_BITS_LEN
    IN
    IF Len(bits) < magic_len + HEADER_BITS THEN Failure("TruncatedHeader")
    ELSE
    LET magic_bits == PySlice(bits, 0, magic_len) IN
    IF magic_bits # bits_from_bytes(MagicOf("HAMM")) THEN Failure("MagicMismatch")
    ELSE
    LET length_bits == PySlice(bits, magic_len, magic_len + HEADER_BITS)
        hb == bytes_from_bits(length_bits)
    IN
    IF ~hb.ok THEN Failure("MisalignedBits")
    ELSE
    LET payload_len == FromBytesLittle(hb.bytes) IN
    IF TotalBitsExceed(payload_len, Len(bits)) THEN Failure("TruncatedPayload")
    ELSE
    LET total_bits_needed ==
            magic_len + HEADER_BITS + (payload_len.lo + 65536 * payload_len.hi) * 8
        payload_bits == PySlice(bits, magic_len + HEADER_BITS, total_bits_needed)
        pb == bytes_from_bits(payload_bits)
    IN
    IF ~pb.ok THEN Failure("MisalignedBits") ELSE Returned(pb.bytes)

\* The backends as main.py's tabs call them.
BackendEmbed(m, buf, p, r, fam, pr) ==
    CASE m = "LSBR" -> LsbrEmbed(buf, p, r)
      [] m = "LSBM" -> LsbmEmbed(buf, p, r, fam)
      [] m = "HAMM" -> HammEmbed(buf, p, r, pr)

BackendExtract(m, buf, r) ==
    CASE m = "LSBR" -> LsbrExtract(buf, r)
      [] m = "LSBM" -> LsbmExtract(buf, r)
      [] m = "HAMM" -> HammExtract(buf, r)

Capacity(m, n, r) == IF m = "HAMM" THEN HammCapacity(n, r) ELSE LsbCapacity(n, r)

(***************************************************************************)
(* Inputs of the model.                                                    *)
(***************************************************************************)
Fill(kind, i) ==
    CASE kind = "zero" -> 0
      [] kind = "max" -> 255
      [] kind = "ramp" -> (7 * i + 3) % 256
      [] kind = "mix" -> (31 * i * i + 17 * i + 5) % 256

Carrier(n, kind) == Tup([i \in 1..n |-> Fill(kind, i - 1)])

\* A carrier nobody embedded into whose low bits happen to spell a frame head.
LsbFramed(n, kind, head) == ReplaceLsb(Carrier(n, kind), bits_from_bytes(head))

\* A carrier nobody embedded into whose block syndromes spell a frame head:
\* block k has a single odd byte, at the position its nibble names.
SyndromeFramed(blocks, head) ==
    LET nibbles == Nibbles(bits_from_bytes(head)) IN
    Tup([i \in 1..(BlockSize * blocks) |->
            LET k == ((i - 1) \div BlockSize) + 1
                j == ((i - 1) % BlockSize) + 1
                v == IF k <= Len(nibbles)
                     THEN nibbles[k][1] + 2 * nibbles[k][2] + 4 * nibbles[k][3] + 8 * nibbles[k][4]
                     ELSE 0
            IN  IF j = v THEN 101 ELSE 100])

Carriers ==
    { Carrier(45, "ramp"), Carrier(64, "mix"), Carrier(88, "zero"), Carrier(88, "max"),
      Carrier(300, "mix"), Carrier(330, "max"), Carrier(487, "ramp"),
      LsbFramed(100, "mix", MagicOf("LSBR") \o <<255, 255, 255, 255>>),
      LsbFramed(100, "ramp", MagicOf("LSBM") \o <<2, 0, 0, 0>>),
      SyndromeFramed(20, MagicOf("HAMM") \o <<1, 0, 0, 0>>),
      SyndromeFramed(20, MagicOf("HAMM") \o <<0, 1, 0, 0>>) }

PayloadBytes == {65, 255}

RECURSIVE SeqsUpTo(_, _)
SeqsUpTo(S, n) ==
    IF n = 0 THEN {<<>>}
    ELSE LET shorter == SeqsUpTo(S, n - 1) IN
         shorter \cup {Append(q, x) : q \in {t \in shorter : Len(t) = n - 1}, x \in S}

Payloads == SeqsUpTo(PayloadBytes, MaxPayloadLen)

Rates == {<<0, 1>>, <<1, 4>>, <<1, 2>>, <<3, 4>>, <<1, 1>>}

ExtractRates == {r \in Rates : r[1] > 0}

NoResult == [kind |-> "none", data |-> <<>>]

NoArgs == [method |-> "none", rate |-> <<0, 1>>, src |-> "none"]

(***************************************************************************)
(* The caller: one embed, then extracts.                                   *)
(***************************************************************************)
\* Faulty variant of FlatAfterEmbed: stego_flat is flat itself, not a copy.
FlatAfterEmbedAliased(cover, stego_flat) == stego_flat

\* stego_flat = flat.copy(): what embed writes into stego_flat does not reach
\* the array it read.
FlatAfterEmbed(cover, stego_flat) == cover

InitFrom(covers) ==
    /\ flat \in covers
    /\ promo \in Promotions
    /\ stego = <<>>
    /\ method = "none"
    /\ payload = <<>>
    /\ rate = <<0, 1>>
    /\ plus = "none"
    /\ embedRes = "none"
    /\ exArgs = NoArgs
    /\ exRes = NoResult
    /\ pc = "idle"
    /\ args = <<>>
    /\ ret = <<>>

Init == InitFrom(Carriers)

Embed(m, p, r, fam) ==
    /\ pc = "idle"
    /\ LET e == BackendEmbed(m, flat, p, r, fam, promo) IN
       /\ embedRes' = e.res
       /\ flat' = IF e.copied THEN FlatAfterEmbed(flat, e.stego_flat) ELSE flat
       /\ stego' = IF e.res = "ok" THEN e.stego_flat ELSE stego
    /\ method' = m
    /\ payload' = p
    /\ rate' = r
    /\ plus' = fam
    /\ pc' = "embedded"
    /\ UNCHANGED <<promo, exArgs, exRes, args, ret>>

Extract(m, r, src) ==
    /\ \/ pc = "idle" /\ src = "cover"
       \/ pc = "embedded" /\ embedRes = "ok" /\ src = "stego"
    /\ exRes' = BackendExtract(m, IF src = "cover" THEN flat ELSE stego, r)
    /\ exArgs' = [method |-> m, rate |-> r, src |-> src]
    /\ pc' = "extracted"
    /\ UNCHANGED <<flat, stego, method, payload, rate, plus, promo, embedRes, args, ret>>

Next ==
    \/ \E m \in Methods, p \in Payloads, r \in Rates :
          \E fam \in (IF m = "LSBM" THEN PlusFamilies ELSE {"none"}) : Embed(m, p, r, fam)
    \/ \E m \in Methods, r \in ExtractRates, src \in {"cover", "stego"} : Extract(m, r, src)

Spec == Init /\ [][Next]_vars

(***************************************************************************)
(* One step of hamming_code.embed's loop on its own: every pattern of the  *)
(* 15 low bits of a block, every nibble, for the first block of an image   *)
(* and for a block further in.                                             *)
(***************************************************************************)
AllPatterns == 0..(2 ^ BlockSize - 1)

AllNibbles == 0..(2 ^ NibbleBits - 1)

\* Blocks further in, around the start offset 255: each is tried on the
\* patterns of its first eight low bits.
FarBlocks == {16, 17, 18}

FarPatterns == 0..255

\* The upper seven bits of every byte of the block under test and of the
\* bytes before it.
UpperBits == 2 * 50

BlockOf(pat) == Tup([j \in 1..BlockSize |-> UpperBits + ((pat \div (2 ^ (j - 1))) % 2)])

\* The nibble 8*b0 + 4*b1 + 2*b2 + b3 as the row <<b0, b1, b2, b3>> of nibbles.
NibbleRow(m) == <<(m \div 8) % 2, (m \div 4) % 2, (m \div 2) % 2, m % 2>>

mainIdle ==
    /\ flat = <<>>
    /\ promo = "legacy"
    /\ stego = <<>>
    /\ method = "none"
    /\ payload = <<>>
    /\ rate = <<0, 1>>
    /\ plus = "none"
    /\ embedRes = "none"
    /\ exArgs = NoArgs
    /\ exRes = NoResult

InitBlock ==
    /\ mainIdle
    /\ pc = "block"
    /\ args \in [pat : FarPatterns, m : AllNibbles, block_idx : FarBlocks]
                \cup [pat : AllPatterns, m : AllNibbles, block_idx : {0}]
    /\ ret = <<>>

\* What the step did, seen from the block: the block after it and the bytes
\* before the block that it changed.
StepOutcome(before, s, start, pr) ==
    [ok |-> s.ok,
     promo |-> pr,
     block |-> PySlice(s.buf, start, start + BlockSize),
     outside |-> {i \in 0..(start - 1) : s.buf[i + 1] # before[i + 1]}]

StepOn(before, m, start, pr) ==
    StepOutcome(before, HammingStep(before, m, start, pr), start, pr)

EmbedStep(pr) ==
    /\ pc = "block"
    /\ ret' = StepOn(Tup([i \in 1..(args.block_idx * BlockSize) |-> UpperBits]) \o BlockOf(args.pat),
                     NibbleRow(args.m), args.block_idx * BlockSize, pr)
    /\ pc' = "blockDone"
    /\ UNCHANGED <<mainVars, args>>

NextBlock == \E pr \in Promotions : EmbedStep(pr)

SpecBlock == InitBlock /\ [][NextBlock]_vars

(***************************************************************************)
(* LSB Matching on its own: embed on the carriers, and the rule for one    *)
(* byte on every byte value, target bit and polarity draw.                 *)
(***************************************************************************)
InitByte ==
    /\ mainIdle
    /\ pc = "byte"
    /\ args \in [v : 0..255, bit : 0..1, plusbit : 0..1]
    /\ ret = <<>>

MatchStep ==
    /\ pc = "byte"
    /\ ret' = MatchByte(args.v, args.bit, args.plusbit)
    /\ pc' = "byteDone"
    /\ UNCHANGED <<mainVars, args>>

InitLSBM == Init \/ InitByte

NextLSBM ==
    \/ \E p \in Payloads, r \in Rates, fam \in PlusFamilies : Embed("LSBM", p, r, fam)
    \/ MatchStep

SpecLSBM == InitLSBM /\ [][NextLSBM]_vars

(***************************************************************************)
(* LSB Replacement on its own, with the all-zero carrier of 4096 bytes.    *)
(***************************************************************************)
ZeroCarrier == Carrier(4096, "zero")

InitLSBR == InitFrom(Carriers \cup {ZeroCarrier})

NextLSBR ==
    \/ \E p \in Payloads, r \in Rates : Embed("LSBR", p, r, "none")
    \/ \E r \in ExtractRates, src \in {"cover", "stego"} : Extract("LSBR", r, src)

SpecLSBR == InitLSBR /\ [][NextLSBR]_vars

(***************************************************************************)
(* The capacity computation on its own.                                    *)
(***************************************************************************)
RateDen == 8

CapRates == {<<k, RateDen>> : k \in 0..RateDen}

InitCap ==
    /\ mainIdle
    /\ pc = "cap"
    /\ args \in [m : Methods, n : 0..MaxCapLen, r1 : CapRates, r2 : CapRates]
    /\ ret = <<>>

ComputeCapacity ==
    /\ pc = "cap"
    /\ ret' = <<Capacity(args.m, args.n, args.r1), Capacity(args.m, args.n, args.r2)>>
    /\ pc' = "capDone"
    /\ UNCHANGED <<mainVars, args>>

NextCap == ComputeCapacity

SpecCap == InitCap /\ [][NextCap]_vars

(***************************************************************************)
(* What the claims speak of, stated without the operators above.           *)
(***************************************************************************)
\* The capacity in bits of a carrier of n bytes at rate r.
SpecCapacity(m, n, r) ==
    IF m = "HAMM" THEN 4 * (((n \div 15) * r[1]) \div r[2]) ELSE (n * r[1]) \div r[2]

FramedBits(p) == 64 + 8 * Len(p)

\* Rate r1 is at most rate r2.
RateLeq(r1, r2) == r1[1] * r2[2] <= r2[1] * r1[2]

\* The i-th bit (from 1) an engine addresses in buf: bit 0 of byte i for the
\* LSB engines; for Hamming, bit (i-1) mod 4 of the syndrome of block
\* (i-1) div 4, the parity of the block's odd bytes at the positions 1..15
\* whose number has that bit.
AddressedBit(m, buf, i) ==
    IF m = "HAMM"
    THEN LET k == (i - 1) \div 4
             r == (i - 1) % 4
         IN  Cardinality({j \in 1..15 : (j \div (2 ^ r)) % 2 = 1 /\ buf[15 * k + j] % 2 = 1}) % 2
    ELSE buf[i] % 2

\* Byte k (from 0) of the addressed bit stream, most significant bit first.
AddressedByte(m, buf, k) ==
    128 * AddressedBit(m, buf, 8 * k + 1) + 64 * AddressedBit(m, buf, 8 * k + 2)
    + 32 * AddressedBit(m, buf, 8 * k + 3) + 16 * AddressedBit(m, buf, 8 * k + 4)
    + 8 * AddressedBit(m, buf, 8 * k + 5) + 4 * AddressedBit(m, buf, 8 * k + 6)
    + 2 * AddressedBit(m, buf, 8 * k + 7) + AddressedBit(m, buf, 8 * k + 8)

\* The outcome a frame parser owes on B addressed bits.  Every carrier of the
\* model addresses fewer than 2^16 bits, so a length field with a nonzero
\* third or fourth byte exceeds them.
OutcomeOn(m, buf, B) ==
    IF B < 64 THEN Failure("TruncatedHeader")
    ELSE IF \E k \in 0..3 : AddressedByte(m, buf, k) # MagicOf(m)[k + 1]
    THEN Failure("MagicMismatch")
    ELSE IF \/ AddressedByte(m, buf, 6) # 0
            \/ AddressedByte(m, buf, 7) # 0
            \/ B < 64 + 8 * (AddressedByte(m, buf, 4) + 256 * AddressedByte(m, buf, 5))
    THEN Failure("TruncatedPayload")
    ELSE Returned(Tup([k \in 1..(AddressedByte(m, buf, 4) + 256 * AddressedByte(m, buf, 5)) |->
                          AddressedByte(m, buf, 7 + k)]))

ExpectedOutcome(m, buf, r) == OutcomeOn(m, buf, SpecCapacity(m, Len(buf), r))

\* An embed was called and has ended.
Embedded == embedRes # "none"

ExtractedStego == pc = "extracted" /\ exArgs.src = "stego"

(***************************************************************************)
(* C1.                                                                     *)
(***************************************************************************)
\* C1: round trip.  For each engine, a payload whose framed bit count does
\* not exceed the capacity at a rate in (0,1] is embedded successfully, and
\* extract on the embedded carrier with the same engine at the same rate
\* returns exactly that payload.
RoundTrip ==
    /\ Embedded /\ rate[1] > 0 /\ FramedBits(payload) <= SpecCapacity(method, Len(flat), rate)
         => embedRes = "ok"
    /\ ExtractedStego /\ exArgs.method = method /\ exArgs.rate = rate
         => exRes = Returned(payload)

\* In support of C1: the round trip of the two LSB engines, and of the Hamming
\* engine under the legacy integer promotion.
RoundTripLegacy ==
    method # "HAMM" \/ promo = "legacy" => RoundTrip

RoundTripLegacyReached ==
    /\ ExtractedStego /\ method = "HAMM" /\ promo = "legacy" /\ exArgs.method = "HAMM"
    /\ exArgs.rate = rate /\ Len(payload) = 2 /\ exRes = Returned(payload)

(***************************************************************************)
(* C2.                                                                     *)
(***************************************************************************)
\* C2: embed is non-destructive.  No step changes the cover buffer, whether
\* embed succeeds or fails, and an embed that fails with CapacityExceeded
\* produces no modified carrier.
NonDestructive ==
    [][flat' = flat /\ (embedRes' = "CapacityExceeded" => stego' = <<>>)]_vars

\* An embed succeeded and what it saved differs from the cover it read.
NonDestructiveReached == embedRes = "ok" /\ stego # flat /\ Len(stego) = Len(flat)

(***************************************************************************)
(* C3.                                                                     *)
(***************************************************************************)
LsbmThenHamming ==
    ExtractedStego /\ method = "LSBM" /\ embedRes = "ok" /\ exArgs.method = "HAMM"

\* C3 as stated: the Hamming engine's extract on a carrier LSB Matching
\* embedded into always fails with MagicMismatch.
MagicIsolation == LsbmThenHamming => exRes.kind = "MagicMismatch"

\* C3 as amended: the Hamming engine's extract on a carrier LSB Matching
\* embedded into never returns a payload; it fails with MagicMismatch when
\* the Hamming engine addresses at least 64 bits at the extraction rate, and
\* with TruncatedHeader when it addresses fewer.
MagicIsolationAmended ==
    LsbmThenHamming =>
        exRes.kind = (IF SpecCapacity("HAMM", Len(stego), exArgs.rate) >= 64
                      THEN "MagicMismatch" ELSE "TruncatedHeader")

MagicIsolationReached == LsbmThenHamming /\ exRes.kind = "MagicMismatch"

(***************************************************************************)
(* C4.                                                                     *)
(***************************************************************************)
\* The value of syndrome XOR m for the block b and the nibble row m.
DiffOf(b, m) ==
    LET d(r) == (AddressedBit("HAMM", b, r) + m[r]) % 2
    IN  d(1) + 2 * d(2) + 4 * d(3) + 8 * d(4)

\* after is b with the byte at position v (from 1) flipped in bit 0, or b
\* itself when v = 0.
FlippedAt(b, after, v) ==
    \A j \in 1..15 : after[j] = (IF j = v THEN XorOne(b[j]) ELSE b[j])

SingleFlip(b, after, m) ==
    /\ FlippedAt(b, after, DiffOf(b, m))
    /\ Syndrome(AndOne(after)) = m

\* C4: the Hamming single-flip law.  For every block and nibble the embed
\* step completes, changes no byte but the one at position v - 1 of the block
\* (none when v = 0), only in its bit 0, and leaves the block with the
\* syndrome m.
SingleFlipLaw ==
    pc = "blockDone" =>
        /\ ret.ok
        /\ ret.outside = {}
        /\ SingleFlip(BlockOf(args.pat), ret.block, NibbleRow(args.m))

\* In support of C4: the law under the legacy integer promotion, and for
\* the first block of an image under either.
SingleFlipLegacy ==
    pc = "blockDone" /\ (ret.promo = "legacy" \/ args.block_idx = 0) => SingleFlipLaw

(***************************************************************************)
(* C5.                                                                     *)
(***************************************************************************)
ByteRule(v, bit, out) ==
    IF v % 2 = bit THEN out = v
    ELSE /\ out = v + 1 \/ out = v - 1
         /\ out \in 0..255
         /\ out % 2 = bit
         /\ v = 0 => out = 1
         /\ v = 255 => out = 254

RegionRule(cover, out, bits) ==
    /\ Len(out) = Len(cover)
    /\ \A i \in 1..Len(cover) :
          IF i <= Len(bits) THEN ByteRule(cover[i], bits[i], out[i]) ELSE out[i] = cover[i]

\* C5: the per-byte rule of LSB Matching and its boundaries.  A byte whose
\* bit 0 is the target bit is unchanged; any other moves by exactly one
\* without wrapping (0 to 1, 255 to 254), stays in 0..255 and ends with the
\* target bit: for every byte value, bit and polarity, and for every byte of
\* the embedding region of an embedded carrier; bytes past the region are
\* unchanged.
MatchingLaw ==
    /\ pc = "byteDone" => ByteRule(args.v, args.bit, ret)
    /\ Embedded /\ method = "LSBM" /\ embedRes = "ok"
         => RegionRule(flat, stego, FrameBits("LSBM", payload))

\* A byte valued 0 drew the polarity -1 and became 1.
MatchingLawReached ==
    /\ Embedded /\ method = "LSBM" /\ embedRes = "ok" /\ plus = "minus"
    /\ \E i \in 1..64 : flat[i] = 0 /\ stego[i] = 1

(***************************************************************************)
(* C6.                                                                     *)
(***************************************************************************)
\* C6: the capacity threshold.  Embed fails with CapacityExceeded exactly
\* when the framed bit count exceeds the engine's capacity: so for the
\* 45-byte carrier at rate 1 with a 1-byte payload through the Hamming
\* engine, and for every payload at rate 0.
CapacityThreshold ==
    Embedded =>
        /\ embedRes = "CapacityExceeded"
             <=> FramedBits(payload) > SpecCapacity(method, Len(flat), rate)
        /\ rate[1] = 0 => embedRes = "CapacityExceeded"
        /\ Len(flat) = 45 /\ method = "HAMM" /\ rate = <<1, 1>> /\ Len(payload) = 1
             => embedRes = "CapacityExceeded"

CapacityThresholdReached ==
    /\ Embedded /\ Len(flat) = 45 /\ method = "HAMM" /\ rate = <<1, 1>>
    /\ payload = <<65>> /\ embedRes = "CapacityExceeded"

(***************************************************************************)
(* C7.                                                                     *)
(***************************************************************************)
FrameEffect(cover, out, bits) ==
    /\ Len(out) = Len(cover)
    /\ \A i \in 1..Len(cover) :
          IF i <= Len(bits)
          THEN out[i] % 2 = bits[i] /\ out[i] \div 2 = cover[i] \div 2
          ELSE out[i] = cover[i]

\* "LSBR" and a zero length, bit by bit.
LsbrEmptyFrame ==
    <<0,1,0,0,1,1,0,0,  0,1,0,1,0,0,1,1,  0,1,0,0,0,0,1,0,  0,1,0,1,0,0,1,0,
      0,0,0,0,0,0,0,0,  0,0,0,0,0,0,0,0,  0,0,0,0,0,0,0,0,  0,0,0,0,0,0,0,0>>

ZeroScenario ==
    flat = ZeroCarrier /\ method = "LSBR" /\ rate = <<1, 1>> /\ payload = <<>>

\* C7: the frame effect of LSB Replacement.  After a successful embed of a
\* frame of N bits, bit 0 of byte i is frame bit i and its upper bits are
\* unchanged for i < N, and every later byte is unchanged.  On the all-zero
\* carrier of 4096 bytes at rate 1 with the empty payload, the first 64
\* bytes are the bits of LSBR and of a zero length, the rest stay 0, and
\* extract returns the empty payload.
ReplacementFrame ==
    /\ Embedded /\ method = "LSBR" /\ embedRes = "ok"
         => FrameEffect(flat, stego, FrameBits("LSBR", payload))
    /\ Embedded /\ ZeroScenario
         => /\ embedRes = "ok"
            /\ stego = LsbrEmptyFrame \o Tup([i \in 1..(4096 - 64) |-> 0])
    /\ ExtractedStego /\ ZeroScenario /\ exArgs.method = "LSBR" /\ exArgs.rate = <<1, 1>>
         => exRes = Returned(<<>>)

ReplacementFrameReached ==
    /\ ExtractedStego /\ ZeroScenario /\ exArgs.method = "LSBR" /\ exArgs.rate = <<1, 1>>
    /\ exRes = Returned(<<>>) /\ stego[2] = 1

(***************************************************************************)
(* C8.                                                                     *)
(***************************************************************************)
\* C8: rate monotonicity.  The capacity at a rate is the floor formula of
\* the engine, and whenever r1 <= r2 the capacity at r1 is at most the
\* capacity at r2.
RateMonotone ==
    pc = "capDone" =>
        /\ ret[1] = SpecCapacity(args.m, args.n, args.r1)
        /\ ret[2] = SpecCapacity(args.m, args.n, args.r2)
        /\ RateLeq(args.r1, args.r2) => ret[1] <= ret[2]

\* Two different rates of which the lower gives the strictly lower capacity.
RateMonotoneReached ==
    /\ pc = "capDone" /\ args.m = "HAMM" /\ RateLeq(args.r1, args.r2)
    /\ args.r1 # args.r2 /\ 0 < ret[1] /\ ret[1] < ret[2]

(***************************************************************************)
(* C9.                                                                     *)
(***************************************************************************)
ExtractSource == IF exArgs.src = "cover" THEN flat ELSE stego

\* C9: the outcome of extract on any carrier.  With B the bits addressed at
\* the rate: TruncatedHeader if B < 64; else MagicMismatch if the first 32
\* bits are not the engine's magic; else, L being the little-endian value of
\* the next 32 bits, TruncatedPayload if B < 64 + 8L; else the L bytes of
\* bits 64 .. 64 + 8L - 1.  MisalignedBits is never the outcome.
ExtractOutcome ==
    pc = "extracted" =>
        /\ exRes = ExpectedOutcome(exArgs.method, ExtractSource, exArgs.rate)
        /\ exRes.kind # "MisalignedBits"

\* A carrier nobody embedded into yields a payload, trailing bits ignored.
ExtractOutcomeReached ==
    /\ pc = "extracted" /\ exArgs.src = "cover" /\ exRes.kind = "Payload"
    /\ Len(exRes.data) = 2
    /\ SpecCapacity(exArgs.method, Len(flat), exArgs.rate) > 64 + 16

(***************************************************************************)
(* C10.                                                                    *)
(***************************************************************************)
\* C10: extraction under a rate mismatch.  Extract with the embedding engine
\* at any rate in (0,1] on a successfully embedded carrier returns exactly
\* the payload when the bits addressed at that rate number at least
\* 64 + 8 * len(payload), and fails with TruncatedHeader or TruncatedPayload
\* otherwise.
RateMismatchSafe ==
    ExtractedStego /\ exArgs.method = method =>
        IF SpecCapacity(method, Len(stego), exArgs.rate) >= FramedBits(payload)
        THEN exRes = Returned(payload)
        ELSE exRes.kind \in {"TruncatedHeader", "TruncatedPayload"}

\* In support of C10: the same for the two LSB engines, and for the Hamming
\* engine under the legacy integer promotion.
RateMismatchLegacy ==
    method # "HAMM" \/ promo = "legacy" => RateMismatchSafe

====
